---- MODULE Spec2Model ----
(***************************************************************************)
(* Message board agent (MessageBoardAgent, indexed-record revision):       *)
(* the access-gated post ledger of one tenant and its chain batcher, and of *)
(* a second tenant of the same agent the effects of its requests.          *)
(*                                                                         *)
(* A request handler is an async function: it runs without interruption    *)
(* from one storage or network await to the next, so every action below is *)
(* the code between two such awaits.  Awaits on the authorization oracle   *)
(* read nothing the handlers write and are folded into the step that       *)
(* follows them.  Hashes (sha256) are modelled as their preimage, i.e. as  *)
(* a collision-free function.  Storage reads succeed; storage writes and   *)
(* uploads to the content store may fail.                                  *)
(***************************************************************************)
EXTENDS Integers, Sequences, FiniteSets, TLC

\* number of requests handled in one run
MaxReq == 2
\* config.data.messageBoard.batchThreshold (configurable, default 5)
batchThreshold == 1

Req == 1..MaxReq

\* the post ids a comment, an edit or a delete may name
Targets == {1, 2}

\* this.lastHash of the constructor: 64 zero hex digits
GenesisHash == << >>

\* req.episteryClient is absent
NoClient == "none"
Clients == {"zed", "eve", "amy", "root"}
Callers == Clients \cup {NoClient}
\* the callers of the routes that never tell level 0 from level 1
Commenters == Callers \ {"zed"}
\* the callers of the route that admits the author of a post alone: "AMY" is
\* the address of "amy" in another letter case
Owners == Commenters \cup {"AMY"}

\* String.prototype.toLowerCase on an address
toLowerCase(address) == IF address = "AMY" THEN "amy" ELSE address

\* the level req.domainAcl.checkAgentAccess reports for an address
checkAgentAccess(address) ==
  CASE address = "root" -> 3
    [] address \in {"amy", "AMY", "pat"} -> 2
    [] address = "eve" -> 1
    [] OTHER -> 0

\* post.channel of a post without a channel (null), and the pseudo-channel that
\* stands for it
NoChannel == "null"
general == "general"
\* the names an administrator gives to channels
ChannelNames == {"news", "staff"}
\* channel.list of a channel without an access list (null), and the list each
\* channel is given when it is created: "news" is open, "staff" is restricted
NoList == "null"
ListOf(name) == IF name = "staff" THEN "team" ELSE NoList

\* a Poster who is on no access list
Outsider == "pat"

\* req.domainAcl.chain.contract.isInACL(list, address)
isInACL(list, address) == list = "team" /\ address \in {"zed", "amy"}

\* post.image of a post without an image (null)
NoImage == << >>

\* req.domain of the requests handled here, and the domain of a second tenant
\* served by the same agent
DomainA == "a"
DomainB == "b"
Tenants == {DomainA, DomainB}

\* the websocket clients: each is connected for a domain (ws.domain) by a
\* caller, whom the server does not record
Listeners == [domain : Tenants, caller : Callers]

\* the values Date.now() takes
MaxClock == 2

\* the posts the second tenant accepts
MaxOther == 1

VARIABLES
  index,      \* posts/index.json: [exists, nextId, posts (ids, newest first)]
  records,    \* posts/<id>.json: function from the ids that have a file to posts
  batchFile,  \* message-board-batch.json: [exists, chain, lastHash]
  loaded,     \* domainStates.has(domain)
  postChain,  \* state.postChain
  lastHash,   \* state.lastHash
  req,        \* the request: [kind, caller, target, valid, channel, image, boardConfig,
              \* oracle ("down": the calls of req.domainAcl throw)]
  pc,         \* where the handler of a request is suspended
  data,       \* the handler's local `data` (readData's result): [nextId, ids, posts]
  cur,        \* the handler's local `post`
  resp,       \* the response sent
  bcast,      \* how many times the handler called broadcast
  wrote,      \* which durable mutations of the handler took effect: [rec, idx]
  task,       \* the setImmediate callback of an accepted post: [pc, link, summary]
  created,    \* history: the ids of the posts created, in the order of their creation
  summaries,  \* history: the batch summaries whose upload was answered
  ipfsOk,     \* history: some uploadToIPFS call returned a result
  channels,   \* config.data.messageBoard.channels: function from names to lists
  legacy,     \* message-board-posts.json: [exists, nextId, posts]
  listed,     \* the posts a read request was answered with
  clock,      \* Date.now()
  other,      \* a second tenant: its index, its entry of domainStates, its flushes
  inbox,      \* the events sent to the listeners connected for each tenant
  shutdown,   \* cleanup: [pc, at (the entry of domainStates it is at), summary]
  client      \* the board client of one user: [posts (ids of its list), confirmed]

vars == <<index, records, batchFile, loaded, postChain, lastHash, req, pc, data,
          cur, resp, bcast, wrote, task, created, summaries, ipfsOk, channels,
          legacy, listed, clock, other, inbox, shutdown, client>>

storageVars == <<index, records>>
chainVars == <<batchFile, loaded, postChain, lastHash, summaries, ipfsOk>>
boardVars == <<channels, legacy, listed, clock, other, shutdown, client>>
\* what no route of this tenant and none of its background tasks writes
siteVars == <<clock, other, shutdown>>

NoPost == [id |-> 0, text |-> 0, image |-> NoImage, author |-> NoClient,
           comments |-> << >>, channel |-> NoChannel, edited |-> FALSE]
NoLink == [id |-> 0, text |-> 0, image |-> NoImage, hash |-> << >>,
           previousHash |-> << >>, chainIndex |-> 0, anchored |-> FALSE]
NoSummary == [posts |-> << >>, chainRoot |-> << >>, count |-> 0]
NoData == [nextId |-> 0, ids |-> << >>, posts |-> << >>]
NoReq == [kind |-> "post", caller |-> NoClient, target |-> 0, valid |-> FALSE,
          channel |-> NoChannel, image |-> NoImage, boardConfig |-> << >>,
          oracle |-> "up"]
NoTask == [pc |-> "none", link |-> NoLink, summary |-> NoSummary]
\* the second tenant before its first request: posts is the number of its
\* posts, rank its place in domainStates (0: no entry)
NoOther == [posts |-> 0, rank |-> 0, postChain |-> << >>, lastHash |-> GenesisHash,
            summary |-> NoSummary, summaries |-> << >>]
NoShutdown == [pc |-> "off", at |-> 0, summary |-> NoSummary]
\* the client before it has loaded or created a post: `posts` of the page and
\* the requests whose response it has handled
NoBoard == [posts |-> << >>, confirmed |-> {}]

(***************************************************************************)
(* Pure helpers                                                            *)
(***************************************************************************)
RECURSIVE SelectIds(_, _)
\* the posts of readData: the records of the indexed ids that can be read
SelectIds(ids, recs) ==
  IF ids = << >> THEN << >>
  ELSE IF Head(ids) \in DOMAIN recs
       THEN <<recs[Head(ids)]>> \o SelectIds(Tail(ids), recs)
       ELSE SelectIds(Tail(ids), recs)

Ids(posts) == [i \in 1..Len(posts) |-> posts[i].id]

RECURSIVE MaxId(_)
MaxId(posts) ==
  IF posts = << >> THEN 0
  ELSE LET m == MaxId(Tail(posts)) IN IF Head(posts).id > m THEN Head(posts).id ELSE m

\* index.nextId || (Math.max(...posts.map(p => p.id), 0) + 1)
NextIdOf(rawNextId, posts) == IF rawNextId # 0 THEN rawNextId ELSE MaxId(posts) + 1

\* data.posts.findIndex(p => p.id === postId), 0 when there is none
FindIndex(posts, postId) ==
  IF \E i \in 1..Len(posts) : posts[i].id = postId
  THEN CHOOSE i \in 1..Len(posts) :
         posts[i].id = postId /\ \A j \in 1..(i - 1) : posts[j].id # postId
  ELSE 0

\* data.posts.splice(index, 1)
Splice(posts, i) == [j \in 1..(Len(posts) - 1) |-> IF j < i THEN posts[j] ELSE posts[j + 1]]

\* a gate that lets every level above none post
PostingAllowedFromReader(level) == level >= 1

\* checkPostingPermission: level 2 (editor) or higher can post
PostingAllowed(level) == level >= 2

\* an administration gate that admits Posters
AdminAllowedFromPoster(level) == level >= 2

\* checkAdminPermission: level 3 (admin) required
AdminAllowed(level) == level >= 3

\* a posting gate that lets the caller through when the oracle cannot be asked
checkPostingPermissionOpen(caller, oracle) ==
  /\ caller # NoClient
  /\ oracle = "up" => PostingAllowed(checkAgentAccess(caller))

\* checkPostingPermission(req).allowed: no client, or the oracle throws (the
\* catch block), or a level below 2: not allowed
checkPostingPermission(caller, oracle) ==
  /\ caller # NoClient
  /\ oracle = "up"
  /\ PostingAllowed(checkAgentAccess(caller))

\* checkAdminPermission(req).allowed
checkAdminPermission(caller, oracle) ==
  /\ caller # NoClient
  /\ oracle = "up"
  /\ AdminAllowed(checkAgentAccess(caller))

\* sha256 of JSON.stringify({...post, previousHash})
hashPost(post, previousHash) == <<post.id, post.text>> \o previousHash

\* a flush that leaves lastHash as it is
rehashKept(h) == h

\* sha256 of state.lastHash (flushBatch)
rehash(h) == <<0>> \o h

\* An image is a data URL: its media type, its encoding and, for vector
\* graphics, the markup as a sequence of pieces: the opening and the closing
\* svg tag, a shape, a script element, an event attribute, a script link
Dangerous == {"script", "onload", "jshref"}
Images ==
  {[type |-> "jpeg", encoding |-> "base64", body |-> << >>],
   [type |-> "png", encoding |-> "base64", body |-> << >>],
   [type |-> "svg", encoding |-> "base64", body |-> <<"svg", "rect", "/svg">>],
   [type |-> "svg", encoding |-> "base64", body |-> <<"svg", "script", "/svg">>],
   [type |-> "svg", encoding |-> "url", body |-> <<"svg", "onload", "rect", "/svg">>],
   [type |-> "svg", encoding |-> "url", body |-> <<"svg", "rect", "/svg">>],
   [type |-> "svg", encoding |-> "base64", body |-> <<"jshref", "rect">>]}

\* the replace calls of sanitizeSvg: dangerous tags, attributes and protocols
Stripped(body) == LET Harmless(piece) == piece \notin Dangerous IN SelectSeq(body, Harmless)

\* sanitizeSvg throws: the stripped markup does not start with <svg or does not
\* end with </svg>
SvgThrows(image) ==
  LET body == Stripped(image.body)
  IN body = << >> \/ body[1] # "svg" \/ body[Len(body)] # "/svg"

\* sanitizeSvg: decode, strip, re-encode as a base64 data URL
sanitizeSvg(image) == [type |-> "svg", encoding |-> "base64", body |-> Stripped(image.body)]

\* the image validation of POST /api/posts (size within the limit, allowSvg at
\* its default true): only JPEG and SVG, and SVG that sanitizeSvg does not reject
ImageAccepted(image) ==
  /\ image.type \in {"jpeg", "svg"}
  /\ image.type = "svg" => ~SvgThrows(image)

\* the records migrateLegacyData writes for the posts of the legacy file
RecordsOf(posts) ==
  [id \in {posts[k].id : k \in 1..Len(posts)} |->
     posts[CHOOSE k \in 1..Len(posts) : posts[k].id = id]]

\* a comparison of addresses that tells letter cases apart
isAuthorExact(post, userAddress) == post.author = userAddress

\* isAuthor of the delete route, and the comparison of the edit route
isAuthor(post, userAddress) == toLowerCase(post.author) = toLowerCase(userAddress)

\* getAccessibleChannelNames, on the channels of req.boardConfig
getAccessibleChannelNames(caller, config) ==
  {general} \cup
    IF caller # NoClient
    THEN IF checkAgentAccess(caller) >= 3
         THEN DOMAIN config
         ELSE {name \in DOMAIN config :
                 IF config[name] = NoList THEN checkAgentAccess(caller) >= 1
                 ELSE isInACL(config[name], caller)}
    ELSE {name \in DOMAIN config : config[name] = NoList}

\* post.channel || 'general'
ChannelOf(post) == IF post.channel = NoChannel THEN general ELSE post.channel

\* a read that narrows to the requested channel and strips nothing
VisiblePostsUnstripped(posts, accessible, channel) ==
  LET Shown(post) == channel # NoChannel => ChannelOf(post) = channel
  IN SelectSeq(posts, Shown)

\* the posts GET /api/posts answers with: those of the accessible channels,
\* narrowed to the requested channel when there is one
VisiblePosts(posts, accessible, channel) ==
  LET Shown(post) ==
        /\ ChannelOf(post) \in accessible
        /\ channel # NoChannel => ChannelOf(post) = channel
  IN SelectSeq(posts, Shown)

\* a broadcast that reaches every connected listener
broadcastToAll(box, domain) == [d \in DOMAIN box |-> box[d] + 1]

\* broadcast: client.send for the listeners with client.domain === domain
broadcast(box, domain) == [d \in DOMAIN box |-> IF d = domain THEN box[d] + 1 ELSE box[d]]

\* the index writeData builds from data
IndexOf(d) == [exists |-> TRUE, nextId |-> d.nextId, posts |-> Ids(d.posts)]

\* saveBatchState
SavedState(chain, h) == [exists |-> TRUE, chain |-> chain, lastHash |-> h]

(***************************************************************************)
(* Initial state: an empty ledger (no index, no records, no legacy file).  *)
(* The persisted chain state of the tenant may or may not exist.           *)
(***************************************************************************)
Boot(legacyFile, indexFile, postFiles) ==
  /\ index = indexFile
  /\ records = postFiles
  /\ batchFile \in {[exists |-> e, chain |-> << >>, lastHash |-> GenesisHash] : e \in BOOLEAN}
  /\ loaded = FALSE
  /\ postChain = << >>
  /\ lastHash = GenesisHash
  /\ req = [r \in Req |-> NoReq]
  /\ pc = [r \in Req |-> "idle"]
  /\ data = [r \in Req |-> NoData]
  /\ cur = [r \in Req |-> NoPost]
  /\ resp = [r \in Req |-> "pending"]
  /\ bcast = [r \in Req |-> 0]
  /\ wrote = [r \in Req |-> [rec |-> FALSE, idx |-> FALSE]]
  /\ task = [r \in Req |-> NoTask]
  /\ created = << >>
  /\ summaries = << >>
  /\ ipfsOk = FALSE
  /\ channels = << >>
  /\ legacy = legacyFile
  /\ listed = [r \in Req |-> << >>]
  /\ clock = 1
  /\ other = NoOther
  /\ inbox = [d \in Tenants |-> 0]
  /\ shutdown = NoShutdown
  /\ client = NoBoard

NoIndex == [exists |-> FALSE, nextId |-> 0, posts |-> << >>]

Started(legacyFile) == Boot(legacyFile, NoIndex, << >>)

NoLegacy == [exists |-> FALSE, nextId |-> 0, posts |-> << >>]

\* a legacy file of the flat single-file store holding one post
LegacyFile ==
  [exists |-> TRUE, nextId |-> 2,
   posts |-> <<[NoPost EXCEPT !.id = 1, !.author = "amy"]>>]

Init == Started(NoLegacy)

\* a tenant that still has its legacy file and has not been migrated
InitLegacy == Started(LegacyFile)

\* a tenant whose ledger holds one post, accepted by an earlier process
FirstPost == [NoPost EXCEPT !.id = 1, !.author = "amy"]
InitBoard == Boot(NoLegacy, [exists |-> TRUE, nextId |-> 2, posts |-> <<1>>], 1 :> FirstPost)

(***************************************************************************)
(* Ledger writer: the four mutating routes                                 *)
(***************************************************************************)
\* res.status(status).json(...) followed by return (or the end of the handler)
Reply(r, status) ==
  /\ resp' = [resp EXCEPT ![r] = status]
  /\ pc' = [pc EXCEPT ![r] = "done"]

\* requests are numbered in the order in which they arrive
Arrives(r) == pc[r] = "idle" /\ (IF r = 1 THEN TRUE ELSE pc[r - 1] # "idle")

\* what the route does with a request whose input passed validation and whose
\* caller is known: the answer of the permission gate, "" when the handler goes on
GateOfPostAt(caller, oracle) ==
  IF ~checkPostingPermission(caller, oracle) THEN "403" ELSE ""

GateOfPost(caller) == GateOfPostAt(caller, "up")

GateOfIdentity(caller) == IF caller = NoClient THEN "401" ELSE ""

\* the part of a route before readData; `answer` is the response of the route's
\* validation and permission gate, "" when the handler goes on to readData
Enter(r, request, answer) ==
  /\ Arrives(r)
  /\ req' = [req EXCEPT ![r] = request]
  /\ IF answer # "" THEN Reply(r, answer)
     ELSE /\ pc' = [pc EXCEPT ![r] = "readIndex"]
          /\ resp' = resp
  /\ UNCHANGED <<storageVars, chainVars, boardVars, data, cur, bcast, inbox, wrote, task, created>>

\* a request whose text is empty is answered 400 before anything else of it is
\* looked at (its other fields stay at their defaults)
Invalid(kind) == [NoReq EXCEPT !.kind = kind]

\* a request whose input passed the validation of its route; req.boardConfig is
\* kept only by the route that reads it after an await
Request(kind, caller, target) ==
  [NoReq EXCEPT !.kind = kind, !.caller = caller, !.target = target, !.valid = TRUE]

\* the answer of POST /api/posts to a request with a text: channel validation,
\* image validation (sanitizeSvg's result is put into req.body.image), then the
\* permission gate
PostAnswer(caller, channel, image) ==
  IF channel \notin {NoChannel, general} /\ channel \notin DOMAIN channels THEN "400"
  ELSE IF image # NoImage /\ ~ImageAccepted(image) THEN "400"
  ELSE GateOfPost(caller)

\* POST /api/posts up to readData
PostOf(r, caller, channel, image) ==
  Enter(r, [Request("post", caller, 0) EXCEPT !.channel = channel, !.image = image],
        PostAnswer(caller, channel, image))

\* POST /api/posts with a text alone
SubmitPost(r) ==
  \/ Enter(r, Invalid("post"), "400")
  \/ \E caller \in Callers : PostOf(r, caller, NoChannel, NoImage)

\* POST /api/posts/:id/comments up to the permission gate
SubmitComment(r) ==
  \/ Enter(r, Invalid("comment"), "400")
  \/ \E caller \in Commenters, target \in Targets :
       /\ GateOfPost(caller) # "" => target = 1
       /\ Enter(r, Request("comment", caller, target), GateOfPost(caller))

\* PATCH /api/posts/:id up to readData
EditPost(r) ==
  \/ Enter(r, Invalid("edit"), "400")
  \/ \E caller \in Owners, target \in Targets :
       /\ GateOfIdentity(caller) # "" => target = 1
       /\ Enter(r, Request("edit", caller, target), GateOfIdentity(caller))

\* DELETE /api/posts/:id up to readData
DeletePost(r) ==
  \E caller \in Commenters, target \in Targets :
    /\ GateOfIdentity(caller) # "" => target = 1
    /\ Enter(r, Request("delete", caller, target), GateOfIdentity(caller))

\* GET /api/posts up to readData; req.query.channel may be absent
GetPosts(r) ==
  \E caller \in Callers \ {"amy"}, channel \in {NoChannel, "staff"} :
    Enter(r, [Request("read", caller, 0) EXCEPT !.channel = channel,
                                                 !.boardConfig = channels], "")

\* the routes while the authorization oracle is unreachable: every call of
\* req.domainAcl made for the request throws
PostWhileDown(r) ==
  \E caller \in Clients :
    Enter(r, [Request("post", caller, 0) EXCEPT !.oracle = "down"],
          GateOfPostAt(caller, "down"))

CommentWhileDown(r) ==
  \E caller \in Clients :
    Enter(r, [Request("comment", caller, 1) EXCEPT !.oracle = "down"],
          GateOfPostAt(caller, "down"))

DeleteWhileDown(r) ==
  \E caller \in Clients :
    Enter(r, [Request("delete", caller, 1) EXCEPT !.oracle = "down"], GateOfIdentity(caller))

GetPostsWhileDown(r) ==
  \E caller \in Callers :
    Enter(r, [Request("read", caller, 0) EXCEPT !.oracle = "down", !.boardConfig = channels],
          "")

\* POST /api/posts naming a channel
SubmitChannelPost(r) ==
  \E channel \in {NoChannel} \cup ChannelNames : PostOf(r, "amy", channel, NoImage)

\* POST /api/posts naming a channel, by a Poster who is on no access list
SubmitOutsiderPost(r) ==
  \E channel \in ChannelNames : PostOf(r, Outsider, channel, NoImage)

\* POST /api/posts carrying an image
SubmitImagePost(r) ==
  \E image \in Images : PostOf(r, "amy", NoChannel, image)

\* POST /api/channels; administration requests are handled one at a time
CreateChannel ==
  \E caller \in Clients, name \in ChannelNames \cup {general} :
    /\ AdminAllowed(checkAgentAccess(caller))
    /\ name # general
    /\ name \notin DOMAIN channels
    /\ channels' = (name :> ListOf(name)) @@ channels
    /\ UNCHANGED <<storageVars, chainVars, legacy, client, siteVars, listed, req, pc, data, cur, resp,
                   bcast, inbox, wrote, task, created>>

\* DELETE /api/channels/:name
DeleteChannel ==
  \E caller \in Clients, name \in ChannelNames :
    /\ AdminAllowed(checkAgentAccess(caller))
    /\ name \in DOMAIN channels
    /\ channels' = [n \in DOMAIN channels \ {name} |-> channels[n]]
    /\ UNCHANGED <<storageVars, chainVars, legacy, client, siteVars, listed, req, pc, data, cur, resp,
                   bcast, inbox, wrote, task, created>>

\* the code of a route between readData's return and its first storage write
AfterRead(r, d) ==
  LET caller == req[r].caller
      i == FindIndex(d.posts, req[r].target)
      old == d.posts[i]
      Keep(post, next) ==
        /\ cur' = [cur EXCEPT ![r] = post]
        /\ data' = [data EXCEPT ![r] = [nextId |-> d.nextId, ids |-> << >>,
                                        posts |-> [d.posts EXCEPT ![i] = post]]]
        /\ pc' = [pc EXCEPT ![r] = next]
        /\ resp' = resp
        /\ listed' = listed
      Refuse(status) ==
        /\ Reply(r, status)
        /\ data' = [data EXCEPT ![r] = NoData]
        /\ cur' = cur
        /\ listed' = listed
  IN
  CASE req[r].kind = "post" ->
         LET post == [id |-> d.nextId, text |-> r, image |-> req[r].image,
                      author |-> caller, comments |-> << >>,
                      channel |-> req[r].channel, edited |-> FALSE]
         IN /\ listed' = listed
            /\ cur' = [cur EXCEPT ![r] = post]
            /\ data' = [data EXCEPT ![r] = [nextId |-> d.nextId + 1, ids |-> << >>,
                                            posts |-> <<post>> \o d.posts]]
            /\ pc' = [pc EXCEPT ![r] = "writePost"]
            /\ resp' = resp
    [] req[r].kind = "comment" ->
         IF i = 0 THEN Refuse("404")
         ELSE Keep([old EXCEPT !.comments = Append(@, [id |-> clock, text |-> r, author |-> caller])],
                   "writePost")
    [] req[r].kind = "edit" ->
         IF i = 0 THEN Refuse("404")
         ELSE IF ~isAuthor(old, caller) THEN Refuse("403")
         ELSE Keep([old EXCEPT !.text = r, !.edited = TRUE], "writePost")
    [] req[r].kind = "delete" ->
         IF i = 0 THEN Refuse("404")
         ELSE IF ~(isAuthor(old, caller) \/ checkAdminPermission(caller, req[r].oracle))
              THEN Refuse("403")
         ELSE Keep(old, "deleteFile")
    [] req[r].kind = "read" ->
         LET accessible == getAccessibleChannelNames(caller, req[r].boardConfig)
             posts == VisiblePosts(d.posts, accessible, req[r].channel)
         IN IF caller # NoClient /\ req[r].oracle = "down"
            THEN Refuse("500")
            ELSE IF req[r].channel # NoChannel /\ req[r].channel \notin accessible
            THEN Refuse("403")
            ELSE /\ Reply(r, "200")
                 /\ listed' = [listed EXCEPT ![r] = posts]
                 /\ data' = [data EXCEPT ![r] = NoData]
                 /\ cur' = cur

\* the catch block of readData, migrateLegacyData up to its first write: the
\* legacy file is read and, if there is none, the ledger starts fresh
StartMigration(r) ==
  IF legacy.exists
  THEN /\ data' = [data EXCEPT ![r] = [nextId |-> legacy.nextId, ids |-> << >>,
                                       posts |-> legacy.posts]]
       /\ pc' = [pc EXCEPT ![r] = "migratePosts"]
       /\ UNCHANGED <<cur, resp, listed>>
  ELSE AfterRead(r, [nextId |-> 1, ids |-> << >>, posts |-> << >>])

\* readData: storage.readFile('posts/index.json'); without an index the legacy
\* migration is tried
ReadIndex(r) ==
  /\ pc[r] = "readIndex"
  /\ IF index.exists
     THEN /\ data' = [data EXCEPT ![r] = [nextId |-> index.nextId, ids |-> index.posts,
                                          posts |-> << >>]]
          /\ pc' = [pc EXCEPT ![r] = "readPosts"]
          /\ UNCHANGED <<cur, resp, listed>>
     ELSE StartMigration(r)
  /\ UNCHANGED <<storageVars, chainVars, channels, legacy, client, siteVars, req, bcast, inbox, wrote, task,
                 created>>

\* readData: the index exists and reading or parsing it throws; the catch block
\* takes that for a missing index
ReadIndexFails(r) ==
  /\ pc[r] = "readIndex"
  /\ index.exists
  /\ StartMigration(r)
  /\ UNCHANGED <<storageVars, chainVars, channels, legacy, client, siteVars, req, bcast, inbox, wrote, task,
                 created>>

\* readData: the post files of the indexed ids, then the route's own code
ReadPosts(r) ==
  /\ pc[r] = "readPosts"
  /\ LET posts == SelectIds(data[r].ids, records)
     IN AfterRead(r, [nextId |-> NextIdOf(data[r].nextId, posts), ids |-> << >>,
                      posts |-> posts])
  /\ UNCHANGED <<storageVars, chainVars, channels, legacy, client, siteVars, req, bcast, inbox, wrote, task,
                 created>>

\* a failing write that is announced to the listeners all the same
WriteFailsAnnounced(r) ==
  /\ Reply(r, "500")
  /\ bcast' = [bcast EXCEPT ![r] = @ + 1]
  /\ inbox' = broadcast(inbox, DomainA)
  /\ UNCHANGED <<storageVars, chainVars, boardVars, req, data, cur, wrote, task, created>>

\* a storage write of the handler throws: the catch block answers 500
WriteFails(r) ==
  /\ Reply(r, "500")
  /\ UNCHANGED <<storageVars, chainVars, boardVars, req, data, cur, bcast, inbox, wrote, task, created>>

\* migrateLegacyData: one record file per post of the legacy file
MigratePosts(r) ==
  /\ pc[r] = "migratePosts"
  /\ \/ /\ records' = RecordsOf(data[r].posts) @@ records
        /\ pc' = [pc EXCEPT ![r] = "migrateIndex"]
        /\ UNCHANGED <<index, chainVars, boardVars, req, data, cur, resp, bcast, inbox, wrote,
                       task, created>>
     \/ WriteFails(r)

\* migrateLegacyData: the index derived from the legacy file; readData returns
\* the legacy data and the route goes on
MigrateIndex(r) ==
  /\ pc[r] = "migrateIndex"
  /\ \/ /\ index' = IndexOf(data[r])
        /\ AfterRead(r, data[r])
        /\ UNCHANGED <<records, chainVars, channels, legacy, client, siteVars, req, bcast, inbox, wrote, task,
                       created>>
     \/ WriteFails(r)

\* writePost: storage.writeFile(`posts/${post.id}.json`)
WritePost(r) ==
  /\ pc[r] = "writePost"
  /\ \/ /\ records' = (cur[r].id :> cur[r]) @@ records
        /\ wrote' = [wrote EXCEPT ![r].rec = TRUE]
        /\ pc' = [pc EXCEPT ![r] = "writeData"]
        /\ UNCHANGED <<index, chainVars, boardVars, req, data, cur, resp, bcast, inbox, task, created>>
     \/ WriteFails(r)

\* deletePost: storage.deleteFile(`posts/${postId}.json`), then the splice
DeleteFile(r) ==
  /\ pc[r] = "deleteFile"
  /\ \/ /\ records' = [i \in DOMAIN records \ {cur[r].id} |-> records[i]]
        /\ wrote' = [wrote EXCEPT ![r].rec = TRUE]
        /\ data' = [data EXCEPT ![r].posts = Splice(@, FindIndex(@, cur[r].id))]
        /\ pc' = [pc EXCEPT ![r] = "writeData"]
        /\ UNCHANGED <<index, chainVars, boardVars, req, cur, resp, bcast, inbox, task, created>>
     \/ WriteFails(r)

\* an end of the accepted routes that schedules batching for every mutation
AcceptRechained(r) ==
  /\ bcast' = [bcast EXCEPT ![r] = @ + 1]
  /\ inbox' = broadcast(inbox, DomainA)
  /\ Reply(r, "200")
  /\ task' = [task EXCEPT ![r].pc = "queued"]
  /\ created' = IF req[r].kind = "post" THEN Append(created, cur[r].id) ELSE created

\* a route that schedules the batching of a new post and does not answer
AcceptUnanswered(r) ==
  /\ bcast' = [bcast EXCEPT ![r] = @ + 1]
  /\ inbox' = broadcast(inbox, DomainA)
  /\ resp' = resp
  /\ pc' = [pc EXCEPT ![r] = "done"]
  /\ task' = IF req[r].kind = "post" THEN [task EXCEPT ![r].pc = "queued"] ELSE task
  /\ created' = IF req[r].kind = "post" THEN Append(created, cur[r].id) ELSE created

\* the end of an accepted route: broadcast, res.json, and for a new post
\* setImmediate(addPostToBatch)
Accept(r) ==
  /\ bcast' = [bcast EXCEPT ![r] = @ + 1]
  /\ inbox' = broadcast(inbox, DomainA)
  /\ Reply(r, "200")
  /\ task' = IF req[r].kind = "post" THEN [task EXCEPT ![r].pc = "queued"] ELSE task
  /\ created' = IF req[r].kind = "post" THEN Append(created, cur[r].id) ELSE created

\* writeData: storage.writeFile('posts/index.json'), then the end of the route
WriteData(r) ==
  /\ pc[r] = "writeData"
  /\ \/ /\ index' = IndexOf(data[r])
        /\ wrote' = [wrote EXCEPT ![r].idx = TRUE]
        /\ Accept(r)
        /\ UNCHANGED <<records, chainVars, boardVars, req, data, cur>>
     \/ WriteFails(r)

(***************************************************************************)
(* Chain batcher: the setImmediate callback of an accepted post            *)
(***************************************************************************)
\* a link that names its own hash as its predecessor
NewLinkOwnHash(post, chain, h) ==
  [id |-> post.id, text |-> post.text, image |-> post.image, hash |-> hashPost(post, h),
   previousHash |-> hashPost(post, h), chainIndex |-> Len(chain), anchored |-> FALSE]

\* chainedPost of addPostToBatch
NewLink(post, chain, h) ==
  [id |-> post.id, text |-> post.text, image |-> post.image, hash |-> hashPost(post, h),
   previousHash |-> h, chainIndex |-> Len(chain), anchored |-> FALSE]

\* if (ipfsResult) chainedPost.ipfsHash = ipfsResult.hash
Anchored(link, ipfsResult) == [link EXCEPT !.anchored = ipfsResult]

\* batchSummary of flushBatch
BatchSummary(chain, h) ==
  [posts |-> [i \in 1..Len(chain) |->
                [id |-> chain[i].id, hash |-> chain[i].hash, anchored |-> chain[i].anchored]],
   chainRoot |-> h,
   count |-> Len(chain)]

\* getDomainState on the first access of the tenant.  Config.readFile throws
\* when the file is missing (readData and loadSidebarLinks catch its ENOENT),
\* and getDomainState does not catch it.  What readFile returns is the file's
\* text, which is never parsed: batchData.chain and batchData.lastHash are
\* undefined, and the state starts from an empty chain and this.lastHash
CanLoad == loaded \/ batchFile.exists

\* addPostToBatch up to the upload of the data wallet
Link(r) ==
  /\ task[r].pc = "queued"
  /\ IF CanLoad
     THEN LET chain == IF loaded THEN postChain ELSE << >>
              h == IF loaded THEN lastHash ELSE GenesisHash
          IN /\ loaded' = TRUE
             /\ postChain' = chain
             /\ lastHash' = h
             /\ task' = [task EXCEPT ![r] = [pc |-> "anchoring",
                                             link |-> NewLink(cur[r], chain, h),
                                             summary |-> NoSummary]]
     ELSE /\ task' = [task EXCEPT ![r].pc = "failed"]
          /\ UNCHANGED <<loaded, postChain, lastHash>>
  /\ UNCHANGED <<storageVars, boardVars, batchFile, summaries, ipfsOk, req, pc, data, cur, resp,
                 bcast, inbox, wrote, created>>

\* addPostToBatch after the upload: push the link, save, and start a flush when
\* the threshold is reached (flushBatch up to the upload of the summary)
AddPostToBatch(r) ==
  /\ task[r].pc = "anchoring"
  /\ \E ipfsResult \in BOOLEAN :
       LET link == Anchored(task[r].link, ipfsResult)
           chain == Append(postChain, link)
       IN /\ ipfsOk' = (ipfsOk \/ ipfsResult)
          /\ postChain' = chain
          /\ lastHash' = link.hash
          /\ batchFile' = SavedState(chain, link.hash)
          /\ task' = [task EXCEPT ![r] =
                        IF Len(chain) >= batchThreshold
                        THEN [pc |-> "flushing", link |-> link,
                              summary |-> BatchSummary(chain, link.hash)]
                        ELSE [pc |-> "done", link |-> link, summary |-> NoSummary]]
  /\ UNCHANGED <<storageVars, boardVars, loaded, summaries, req, pc, data, cur, resp, bcast, inbox,
                 wrote, created>>

\* flushBatch after the upload of the summary
FlushBatch(r) ==
  /\ task[r].pc = "flushing"
  /\ \E batchIpfs \in BOOLEAN :
       /\ ipfsOk' = (ipfsOk \/ batchIpfs)
       /\ summaries' = Append(summaries, [summary |-> task[r].summary, uploaded |-> batchIpfs])
       /\ postChain' = << >>
       /\ lastHash' = rehash(lastHash)
       /\ batchFile' = SavedState(<< >>, rehash(lastHash))
       /\ task' = [task EXCEPT ![r].pc = "done"]
  /\ UNCHANGED <<storageVars, boardVars, loaded, req, pc, data, cur, resp, bcast, inbox, wrote, created>>

(***************************************************************************)
(* A second tenant of the same agent.  Its requests run the same code with  *)
(* another req.domain; of a request only its effects are kept: the post in  *)
(* the storage of its domain, the event sent to its listeners, the link in  *)
(* its entry of domainStates.                                              *)
(***************************************************************************)
\* POST /api/posts of the second tenant and addPostToBatch for its post, up to
\* the upload of the summary when the threshold is reached
OtherPost ==
  /\ other.posts < MaxOther
  /\ LET post == [NoPost EXCEPT !.id = other.posts + 1]
         link == NewLink(post, other.postChain, other.lastHash)
         chain == Append(other.postChain, link)
     IN other' = [other EXCEPT
                    !.posts = @ + 1,
                    !.rank = IF @ # 0 THEN @ ELSE IF loaded THEN 2 ELSE 1,
                    !.postChain = chain,
                    !.lastHash = link.hash,
                    !.summary = IF Len(chain) >= batchThreshold
                                THEN BatchSummary(chain, link.hash) ELSE @]
  /\ inbox' = broadcast(inbox, DomainB)
  /\ UNCHANGED <<storageVars, chainVars, channels, legacy, client, listed, clock, shutdown, req, pc,
                 data, cur, resp, bcast, wrote, task, created>>

\* flushBatch of the second tenant after the upload of the summary
OtherFlush ==
  /\ other.summary # NoSummary
  /\ \E batchIpfs \in BOOLEAN :
       other' = [other EXCEPT
                   !.postChain = << >>,
                   !.lastHash = rehash(@),
                   !.summary = NoSummary,
                   !.summaries = Append(@, [summary |-> other.summary,
                                            uploaded |-> batchIpfs])]
  /\ UNCHANGED <<storageVars, chainVars, channels, legacy, client, listed, clock, shutdown, req, pc,
                 data, cur, resp, bcast, inbox, wrote, task, created>>

(***************************************************************************)
(* cleanup                                                                 *)
(***************************************************************************)
\* this.domainStates.entries(): the domains in the order of their first access
Entries ==
  LET a == IF loaded THEN <<DomainA>> ELSE << >>
      b == IF other.rank # 0 THEN <<DomainB>> ELSE << >>
  IN IF other.rank = 1 THEN b \o a ELSE a \o b

\* state.postChain and state.lastHash of a domain
ChainOf(domain) == IF domain = DomainA THEN postChain ELSE other.postChain
LastHashOf(domain) == IF domain = DomainA THEN lastHash ELSE other.lastHash

\* the loop of cleanup from entry k on, up to the next await: the flush of the
\* first domain from there whose chain is not empty, suspended on the upload of
\* its summary; without such a domain cleanup returns
cleanupFrom(k) ==
  LET pending == {j \in k..Len(Entries) : ChainOf(Entries[j]) # << >>}
  IN IF pending = {}
     THEN [pc |-> "done", at |-> 0, summary |-> NoSummary]
     ELSE LET j == CHOOSE j \in pending : \A i \in pending : j <= i
          IN [pc |-> "flushing", at |-> j,
              summary |-> BatchSummary(ChainOf(Entries[j]), LastHashOf(Entries[j]))]

\* cleanup is called
Cleanup ==
  /\ shutdown.pc = "off"
  /\ shutdown' = cleanupFrom(1)
  /\ UNCHANGED <<storageVars, chainVars, channels, legacy, client, listed, clock, other, req, pc,
                 data, cur, resp, bcast, inbox, wrote, task, created>>

\* flushBatch of cleanup after the upload of the summary, and the loop of
\* cleanup from the next entry on
CleanupFlush ==
  /\ shutdown.pc = "flushing"
  /\ \E batchIpfs \in BOOLEAN :
       LET sealed == [summary |-> shutdown.summary, uploaded |-> batchIpfs]
       IN /\ ipfsOk' = (ipfsOk \/ batchIpfs)
          /\ IF Entries[shutdown.at] = DomainA
             THEN /\ summaries' = Append(summaries, sealed)
                  /\ postChain' = << >>
                  /\ lastHash' = rehash(lastHash)
                  /\ batchFile' = SavedState(<< >>, rehash(lastHash))
                  /\ other' = other
             ELSE /\ other' = [other EXCEPT !.postChain = << >>,
                                            !.lastHash = rehash(@),
                                            !.summaries = Append(@, sealed)]
                  /\ UNCHANGED <<summaries, postChain, lastHash, batchFile>>
  /\ shutdown' = cleanupFrom(shutdown.at + 1)
  /\ UNCHANGED <<storageVars, loaded, channels, legacy, client, listed, clock, req, pc, data, cur,
                 resp, bcast, inbox, wrote, task, created>>

\* time passes: Date.now() returns a later value
Tick ==
  /\ clock < MaxClock
  /\ clock' = clock + 1
  /\ UNCHANGED <<storageVars, chainVars, channels, legacy, client, listed, other, shutdown, req, pc,
                 data, cur, resp, bcast, inbox, wrote, task, created>>

\* no handler and no background task of the tenant is running
Settled ==
  \A r \in Req :
    pc[r] \in {"idle", "done"} /\ task[r].pc \notin {"queued", "anchoring", "flushing"}

\* the process ends and a new one is constructed: domainStates is a new, empty
\* Map, and the files of the tenant are what the old process left
Restart ==
  /\ Settled
  /\ loaded
  /\ loaded' = FALSE
  /\ postChain' = << >>
  /\ lastHash' = GenesisHash
  /\ UNCHANGED <<storageVars, boardVars, batchFile, summaries, ipfsOk, req, pc, data, cur,
                 resp, bcast, inbox, wrote, task, created>>

\* the four mutating routes, from the request to the response
NextLedger ==
  \/ \E r \in Req : SubmitPost(r)
  \/ \E r \in Req : SubmitComment(r)
  \/ \E r \in Req : EditPost(r)
  \/ \E r \in Req : DeletePost(r)
  \/ \E r \in Req : ReadIndex(r)
  \/ \E r \in Req : ReadPosts(r)
  \/ \E r \in Req : WritePost(r)
  \/ \E r \in Req : DeleteFile(r)
  \/ \E r \in Req : WriteData(r)

\* the creation of posts and the background work it schedules
NextChain ==
  \/ \E r \in Req : SubmitPost(r)
  \/ \E r \in Req : ReadIndex(r)
  \/ \E r \in Req : ReadPosts(r)
  \/ \E r \in Req : WritePost(r)
  \/ \E r \in Req : WriteData(r)
  \/ \E r \in Req : Link(r)
  \/ \E r \in Req : AddPostToBatch(r)
  \/ \E r \in Req : FlushBatch(r)

\* the ledger writer alone: the background work stays queued
SpecLedger == Init /\ [][NextLedger]_vars

\* the chain batcher fed by new posts alone
SpecChain == Init /\ [][NextChain]_vars

\* the handler and the background work of every earlier request have finished
Quiet(r) ==
  \A q \in 1..(r - 1) :
    pc[q] = "done" /\ task[q].pc \notin {"queued", "anchoring", "flushing"}

\* posts submitted one after another, each after the background work of the
\* one before it has finished
NextSequential ==
  \/ \E r \in Req : Quiet(r) /\ SubmitPost(r)
  \/ \E r \in Req : ReadIndex(r)
  \/ \E r \in Req : ReadPosts(r)
  \/ \E r \in Req : WritePost(r)
  \/ \E r \in Req : WriteData(r)
  \/ \E r \in Req : Link(r)
  \/ \E r \in Req : AddPostToBatch(r)
  \/ \E r \in Req : FlushBatch(r)

SpecSequential == Init /\ [][NextSequential]_vars

\* the handler of every earlier request has finished
Answered(r) == \A q \in 1..(r - 1) : pc[q] = "done"

\* no handler is running
Idle == \A r \in Req : pc[r] \in {"idle", "done"}

\* channel administration, posts into channels and reads, one request after
\* another
NextChannels ==
  \/ Idle /\ CreateChannel
  \/ Idle /\ DeleteChannel
  \/ \E r \in Req : Answered(r) /\ SubmitChannelPost(r)
  \/ \E r \in Req : Answered(r) /\ GetPosts(r)
  \/ \E r \in Req : ReadIndex(r)
  \/ \E r \in Req : ReadPosts(r)
  \/ \E r \in Req : WritePost(r)
  \/ \E r \in Req : WriteData(r)

SpecChannels == Init /\ [][NextChannels]_vars

\* posts with images, one after another, and their background work
NextImage ==
  \/ \E r \in Req : Quiet(r) /\ SubmitImagePost(r)
  \/ \E r \in Req : ReadIndex(r)
  \/ \E r \in Req : ReadPosts(r)
  \/ \E r \in Req : WritePost(r)
  \/ \E r \in Req : WriteData(r)
  \/ \E r \in Req : Link(r)
  \/ \E r \in Req : AddPostToBatch(r)
  \/ \E r \in Req : FlushBatch(r)

SpecImage == Init /\ [][NextImage]_vars

\* posts, one after another, on a tenant that has a legacy file, with index
\* reads that may fail
NextMigrate ==
  \/ \E r \in Req : Answered(r) /\ SubmitPost(r)
  \/ \E r \in Req : ReadIndex(r)
  \/ \E r \in Req : ReadIndexFails(r)
  \/ \E r \in Req : MigratePosts(r)
  \/ \E r \in Req : MigrateIndex(r)
  \/ \E r \in Req : ReadPosts(r)
  \/ \E r \in Req : WritePost(r)
  \/ \E r \in Req : WriteData(r)

SpecMigrate == InitLegacy /\ [][NextMigrate]_vars

\* posts one after another, with restarts of the process between them
NextRestart ==
  \/ \E r \in Req : Quiet(r) /\ SubmitPost(r)
  \/ \E r \in Req : ReadIndex(r)
  \/ \E r \in Req : ReadPosts(r)
  \/ \E r \in Req : WritePost(r)
  \/ \E r \in Req : WriteData(r)
  \/ \E r \in Req : Link(r)
  \/ \E r \in Req : AddPostToBatch(r)
  \/ \E r \in Req : FlushBatch(r)
  \/ Restart

SpecRestart == Init /\ [][NextRestart]_vars

\* requests, one after another, some of them while the oracle is unreachable
NextOracle ==
  \/ \E r \in Req : Answered(r) /\ SubmitPost(r)
  \/ \E r \in Req : Answered(r) /\ PostWhileDown(r)
  \/ \E r \in Req : Answered(r) /\ CommentWhileDown(r)
  \/ \E r \in Req : Answered(r) /\ DeleteWhileDown(r)
  \/ \E r \in Req : Answered(r) /\ GetPostsWhileDown(r)
  \/ \E r \in Req : ReadIndex(r)
  \/ \E r \in Req : ReadPosts(r)
  \/ \E r \in Req : WritePost(r)
  \/ \E r \in Req : DeleteFile(r)
  \/ \E r \in Req : WriteData(r)

SpecOracle == Init /\ [][NextOracle]_vars

\* the mutating routes of one tenant, each request after the background work
\* of the one before it, and the requests of a second tenant
NextTenants ==
  \/ \E r \in Req : Quiet(r) /\ SubmitPost(r)
  \/ \E r \in Req : Quiet(r) /\ SubmitComment(r)
  \/ \E r \in Req : Quiet(r) /\ EditPost(r)
  \/ \E r \in Req : Quiet(r) /\ DeletePost(r)
  \/ \E r \in Req : ReadIndex(r)
  \/ \E r \in Req : ReadPosts(r)
  \/ \E r \in Req : WritePost(r)
  \/ \E r \in Req : DeleteFile(r)
  \/ \E r \in Req : WriteData(r)
  \/ \E r \in Req : Link(r)
  \/ \E r \in Req : AddPostToBatch(r)
  \/ \E r \in Req : FlushBatch(r)
  \/ OtherPost
  \/ OtherFlush

SpecTenants == Init /\ [][NextTenants]_vars

\* posts of two tenants, their background work, and a shutdown
NextShutdown ==
  \/ \E r \in Req : Answered(r) /\ SubmitPost(r)
  \/ \E r \in Req : ReadIndex(r)
  \/ \E r \in Req : ReadPosts(r)
  \/ \E r \in Req : WritePost(r)
  \/ \E r \in Req : WriteData(r)
  \/ \E r \in Req : Link(r)
  \/ \E r \in Req : AddPostToBatch(r)
  \/ \E r \in Req : FlushBatch(r)
  \/ OtherPost
  \/ OtherFlush
  \/ Cleanup
  \/ CleanupFlush

SpecShutdown == Init /\ [][NextShutdown]_vars

\* comments on the post of a tenant, one request after another, while time
\* passes
NextClock ==
  \/ \E r \in Req : Answered(r) /\ SubmitComment(r)
  \/ \E r \in Req : ReadIndex(r)
  \/ \E r \in Req : ReadPosts(r)
  \/ \E r \in Req : WritePost(r)
  \/ \E r \in Req : WriteData(r)
  \/ Tick

SpecClock == InitBoard /\ [][NextClock]_vars

\* the four mutating routes on a tenant that has a post
SpecBoard == InitBoard /\ [][NextLedger]_vars

\* the event loop runs every handler whose await has been answered and every
\* setImmediate callback
HandlersRun ==
  \A r \in Req :
    /\ WF_vars(ReadIndex(r))
    /\ WF_vars(ReadPosts(r))
    /\ WF_vars(WritePost(r))
    /\ WF_vars(WriteData(r))
    /\ WF_vars(Link(r))

\* the content store answers every upload
StoreAnswers ==
  \A r \in Req : WF_vars(AddPostToBatch(r)) /\ WF_vars(FlushBatch(r))

\* the chain batcher with a content store that answers every upload
SpecChainLive == Init /\ [][NextChain]_vars /\ HandlersRun /\ StoreAnswers

\* the chain batcher with a content store that may never answer
SpecChainStalled == Init /\ [][NextChain]_vars /\ HandlersRun

\* the four mutating routes, one request after another, and the background
\* work of the accepted posts
NextFrame ==
  \/ \E r \in Req : Answered(r) /\ SubmitPost(r)
  \/ \E r \in Req : Answered(r) /\ SubmitComment(r)
  \/ \E r \in Req : Answered(r) /\ EditPost(r)
  \/ \E r \in Req : Answered(r) /\ DeletePost(r)
  \/ \E r \in Req : ReadIndex(r)
  \/ \E r \in Req : ReadPosts(r)
  \/ \E r \in Req : WritePost(r)
  \/ \E r \in Req : DeleteFile(r)
  \/ \E r \in Req : WriteData(r)
  \/ \E r \in Req : Link(r)
  \/ \E r \in Req : AddPostToBatch(r)
  \/ \E r \in Req : FlushBatch(r)

SpecFrame == Init /\ [][NextFrame]_vars

\* what the handlers leave alone of the page that sent the requests
pageFrame == <<storageVars, chainVars, channels, legacy, listed, clock, other, shutdown,
               req, pc, data, cur, resp, bcast, inbox, wrote, task, created>>

\* handleWebSocketMessage, case 'new-post', for the event of request r: the post
\* is put in front unless a post of its id is in the list; the event may be
\* handled any number of times
ClientReceive(r) ==
  /\ req[r].kind = "post"
  /\ bcast[r] > 0
  /\ client' = [client EXCEPT !.posts =
                  IF \E i \in 1..Len(@) : @[i] = cur[r].id THEN @
                  ELSE <<cur[r].id>> \o @]
  /\ UNCHANGED pageFrame

\* createPost after the response of request r: the confirmed post is put in
\* front of the list
ClientConfirm(r) ==
  /\ req[r].kind = "post"
  /\ resp[r] = "200"
  /\ r \notin client.confirmed
  /\ client' = [posts |-> <<cur[r].id>> \o client.posts,
                confirmed |-> client.confirmed \cup {r}]
  /\ UNCHANGED pageFrame

\* the page that creates posts and listens to the events of its tenant
NextClient ==
  \/ \E r \in Req : SubmitPost(r)
  \/ \E r \in Req : ReadIndex(r)
  \/ \E r \in Req : ReadPosts(r)
  \/ \E r \in Req : WritePost(r)
  \/ \E r \in Req : WriteData(r)
  \/ \E r \in Req : ClientReceive(r)
  \/ \E r \in Req : ClientConfirm(r)

SpecClient == Init /\ [][NextClient]_vars

\* channel administration and posts into channels by a Poster who is on no
\* access list, one request after another
NextRestricted ==
  \/ Idle /\ CreateChannel
  \/ Idle /\ DeleteChannel
  \/ \E r \in Req : Answered(r) /\ SubmitOutsiderPost(r)
  \/ \E r \in Req : ReadIndex(r)
  \/ \E r \in Req : ReadPosts(r)
  \/ \E r \in Req : WritePost(r)
  \/ \E r \in Req : WriteData(r)

SpecRestricted == Init /\ [][NextRestricted]_vars

Next ==
  NextLedger \/ NextChain \/ NextChannels \/ NextImage \/ NextMigrate \/ NextRestart
    \/ NextOracle \/ NextTenants \/ NextShutdown \/ NextClock \/ NextFrame
    \/ NextRestricted \/ NextClient

Spec == Init /\ [][Next]_vars

(***************************************************************************)
(* Properties                                                              *)
(***************************************************************************)
Arrived == {r \in Req : pc[r] # "idle"}

\* a valid submitPost of an identified caller whose level is below Poster
BelowPoster(request) ==
  /\ request.kind = "post"
  /\ request.valid
  /\ request.caller \in Clients
  /\ checkAgentAccess(request.caller) < 2

\* C1: when all the requests handled so far are submitPost requests that were
\* accepted, the ids of their posts are exactly 1..N, N the number of requests
IdsAreOneToN ==
  (\A r \in Arrived : req[r].kind = "post" /\ resp[r] = "200")
    => {cur[r].id : r \in Arrived} = 1..Cardinality(Arrived)

\* C2: every link of the working chain after the first names the hash of the
\* link before it as its previousHash
ChainIntegrity ==
  \A i \in 2..Len(postChain) : postChain[i].previousHash = postChain[i - 1].hash

\* C3 (as claimed): the first link of a non-empty working chain always has the
\* genesis hash as its previousHash, also after flushes
GenesisFirstAlways ==
  postChain # << >> => postChain[1].previousHash = GenesisHash

\* C3 (amended): as long as no flush of the tenant has completed, the first link
\* of a non-empty working chain has the genesis hash as its previousHash
GenesisFirstBeforeFlush ==
  (summaries = << >> /\ postChain # << >>) => postChain[1].previousHash = GenesisHash

\* C3 witness: two links in the chain before any flush has completed
TwoLinksBeforeFlush ==
  /\ summaries = << >>
  /\ Len(postChain) >= 2
  /\ postChain[1].id # 0

\* C4: a submitPost of a caller below Poster is answered 403 in the step that
\* takes it up; that step changes neither the index nor the records nor the
\* chain, and the request never writes, broadcasts or schedules a chain link
FailClosedWrites ==
  [][\A r \in Req :
       BelowPoster(req'[r]) =>
         /\ resp'[r] = "403"
         /\ cur'[r] = NoPost
         /\ wrote'[r] = [rec |-> FALSE, idx |-> FALSE]
         /\ bcast'[r] = 0
         /\ task'[r] = NoTask
         /\ \A i \in 1..Len(postChain') : postChain'[i].text # r
         /\ pc[r] = "idle" =>
              /\ index' = index
              /\ records' = records
              /\ created' = created
              /\ postChain' = postChain]_vars

\* C4 witness: a Reader's submitPost was refused on a ledger that holds a post
ReaderRefusedOnLedger ==
  \E r \in Req :
    /\ BelowPoster(req[r])
    /\ resp[r] = "403"
    /\ index.exists
    /\ index.nextId = 2
    /\ DOMAIN records = {1}

\* C5: a flush whose summary upload fails leaves the working chain and lastHash
\* as they were
FailedFlushKeepsChain ==
  [][\A r \in Req :
       (task[r].pc = "flushing" /\ task'[r].pc = "done"
          /\ ~summaries'[Len(summaries')].uploaded)
         => (postChain' = postChain /\ lastHash' = lastHash)]_vars

\* C6: the background work of a post exists only once the success response was
\* sent, and the response was sent only once the record and the index of the
\* post were written; a link in the chain belongs to an answered request
ResponseBeforeBatch ==
  /\ \A r \in Req :
       /\ task[r].pc # "none" => resp[r] = "200"
       /\ (req[r].kind = "post" /\ resp[r] = "200") =>
            (wrote[r].rec /\ wrote[r].idx /\ task[r].pc # "none")
  /\ \A i \in 1..Len(postChain) :
       \E r \in Req : postChain[i].text = r /\ resp[r] = "200"

\* C6 witness: a post was answered and its background work has not begun
AnsweredBeforeLinking ==
  \E r \in Req : resp[r] = "200" /\ task[r].pc = "queued" /\ postChain = << >>

\* C7: as long as no upload has succeeded, every post whose index was written
\* was answered with success, the background work of every accepted post
\* appends its link, and no link carries an anchor reference
AnchorFailureIsolation ==
  ~ipfsOk =>
    /\ \A r \in Req : (req[r].kind = "post" /\ wrote[r].idx) => resp[r] = "200"
    /\ \A r \in Req : task[r].pc # "failed"
    /\ \A r \in Req : task[r].pc \in {"flushing", "done"} =>
         (task[r].link.text = r /\ ~task[r].link.anchored)
    /\ \A i \in 1..Len(postChain) : ~postChain[i].anchored

\* C8: a request that ended in a storage error applied both of its durable
\* mutations (the post record and the index) or none of them
NoPartialState ==
  \A r \in Req : resp[r] = "500" => (wrote[r].rec <=> wrote[r].idx)

\* C9: the ids of the posts created are strictly increasing in the order of
\* their creation
IdsStrictlyIncrease ==
  \A i, j \in 1..Len(created) : i < j => created[i] < created[j]

\* C10: broadcast was called once by every request answered with success, after
\* both of its writes, and not at all by any other request
BroadcastOncePerAccepted ==
  \A r \in Req :
    /\ bcast[r] = (IF resp[r] = "200" THEN 1 ELSE 0)
    /\ bcast[r] > 0 => (wrote[r].rec /\ wrote[r].idx)

\* C10 witness: a post and a comment on it were both accepted and broadcast
PostAndCommentBroadcast ==
  \E r, q \in Req :
    /\ req[r].kind = "post" /\ resp[r] = "200" /\ bcast[r] = 1
    /\ req[q].kind = "comment" /\ resp[q] = "200" /\ bcast[q] = 1

\* C11: a flush begins as soon as the working chain holds batchThreshold links;
\* the step that completes a flush empties the chain and sets lastHash to
\* H(previous lastHash), which is the hash of no link of the flushed batch (and,
\* when nothing was appended during the flush, H(hash of its last link))
ThresholdFlush ==
  [][/\ Len(postChain') >= batchThreshold => \E r \in Req : task'[r].pc = "flushing"
     /\ \A r \in Req :
          (task[r].pc = "flushing" /\ task'[r].pc = "done") =>
            /\ postChain' = << >>
            /\ lastHash' = rehash(lastHash)
            /\ \A i \in 1..Len(postChain) : lastHash' # postChain[i].hash
            /\ \A i \in 1..Len(task[r].summary.posts) :
                 lastHash' # task[r].summary.posts[i].hash
            /\ Len(postChain) = task[r].summary.count =>
                 lastHash' = rehash(task[r].summary.chainRoot)]_vars

\* C11 witness: a batch of exactly batchThreshold links was flushed
ThresholdBatchFlushed ==
  \E i \in 1..Len(summaries) :
    /\ summaries[i].summary.count = batchThreshold
    /\ postChain = << >>
    /\ lastHash = rehash(summaries[i].summary.chainRoot)

\* the first batchThreshold requests are all there is so far; they are accepted
\* posts whose background work has ended
ScenarioRan ==
  /\ Arrived = 1..batchThreshold
  /\ \A r \in Arrived :
       /\ req[r].kind = "post" /\ resp[r] = "200"
       /\ task[r].pc \in {"done", "failed"}

\* C12: after batchThreshold posts submitted one after another to an empty
\* tenant, nextId is batchThreshold + 1, the records are those of the ids
\* 1..batchThreshold, the working chain is empty, and one summary was produced:
\* the links of the ids 1..batchThreshold in order, with their count, rooted at
\* the hash of the last link
SequentialScenario ==
  ScenarioRan =>
    /\ index.exists /\ index.nextId = batchThreshold + 1
    /\ DOMAIN records = 1..batchThreshold
    /\ postChain = << >>
    /\ Len(summaries) = 1
    /\ LET s == summaries[1].summary
       IN /\ s.count = batchThreshold
          /\ Len(s.posts) = batchThreshold
          /\ \A k \in 1..Len(s.posts) : s.posts[k].id = k
          /\ s.chainRoot = s.posts[Len(s.posts)].hash

\* C13: the k-th link of the working chain carries chain index k (counted from
\* 0), and the links are in the order of the ids of their posts
ChainIndexOrdered ==
  /\ \A k \in 1..Len(postChain) : postChain[k].chainIndex = k - 1
  /\ \A i, j \in 1..Len(postChain) : i < j => postChain[i].id < postChain[j].id

\* the request is an edit (or a delete) of an identified caller
Identified(request, kind) ==
  request.kind = kind /\ request.valid /\ request.caller # NoClient

\* the handler of r ends its readData in this step and finds the post it names
\* in storage
FindsPost(r) ==
  /\ pc[r] = "readPosts" /\ pc'[r] # "readPosts"
  /\ \E k \in 1..Len(data[r].ids) : data[r].ids[k] = req[r].target
  /\ req[r].target \in DOMAIN records

\* C14: an edit by anyone but the author of the stored post (addresses compared
\* without regard to letter case), Admins included, is answered 403 and changes
\* nothing; an edit by the author changes the text and the edit mark of the
\* post and nothing else of it, and its write replaces that one record
EditOnlyByAuthor ==
  [][\A r \in Req :
       Identified(req[r], "edit") =>
         LET caller == req[r].caller
             stored == records[req[r].target]
         IN /\ resp'[r] = "200" => toLowerCase(cur'[r].author) = toLowerCase(caller)
            /\ resp'[r] = "403" => wrote'[r] = [rec |-> FALSE, idx |-> FALSE]
            /\ (FindsPost(r) /\ toLowerCase(stored.author) # toLowerCase(caller)) =>
                 /\ resp'[r] = "403"
                 /\ index' = index /\ records' = records
            /\ (FindsPost(r) /\ toLowerCase(stored.author) = toLowerCase(caller)) =>
                 /\ pc'[r] = "writePost"
                 /\ cur'[r] = [stored EXCEPT !.text = r, !.edited = TRUE]
            /\ (pc[r] = "writePost" /\ pc'[r] = "writeData") =>
                 /\ records'[cur[r].id] = cur[r]
                 /\ \A id \in DOMAIN records \ {cur[r].id} :
                      id \in DOMAIN records' /\ records'[id] = records[id]
                 /\ index' = index]_vars

\* C14 witness: the author, writing the address in another letter case, edited
\* the post
AuthorEditedInOtherCase ==
  \E r, q \in Req :
    /\ req[q].kind = "post" /\ resp[q] = "200" /\ req[q].caller = "amy"
    /\ req[r].kind = "edit" /\ resp[r] = "200" /\ req[r].caller = "AMY"
    /\ req[r].target \in DOMAIN records
    /\ records[req[r].target] = [cur[q] EXCEPT !.text = r, !.edited = TRUE]

\* C15: a delete by an identified caller who is neither the author of the
\* stored post nor an Admin is answered 403 and changes neither the records nor
\* the index (nextId included); a delete by the author or an Admin removes the
\* record of that post and no other
DeleteByAuthorOrAdmin ==
  [][\A r \in Req :
       Identified(req[r], "delete") =>
         LET caller == req[r].caller
             stored == records[req[r].target]
             MayDelete(post) ==
               toLowerCase(post.author) = toLowerCase(caller) \/ checkAgentAccess(caller) >= 3
         IN /\ resp'[r] = "200" => MayDelete(cur'[r])
            /\ resp'[r] = "403" => wrote'[r] = [rec |-> FALSE, idx |-> FALSE]
            /\ (FindsPost(r) /\ ~MayDelete(stored)) =>
                 /\ resp'[r] = "403"
                 /\ index' = index /\ records' = records
            /\ (FindsPost(r) /\ MayDelete(stored)) =>
                 /\ pc'[r] = "deleteFile"
                 /\ cur'[r] = stored
            /\ (pc[r] = "deleteFile" /\ pc'[r] = "writeData") =>
                 /\ DOMAIN records' = DOMAIN records \ {cur[r].id}
                 /\ \A id \in DOMAIN records' : records'[id] = records[id]
                 /\ index' = index]_vars

\* C15 witness: a Poster's delete of an Admin's post was refused and the post
\* is still stored and indexed
NonAuthorDeleteRefused ==
  \E r, q \in Req :
    /\ req[q].kind = "post" /\ resp[q] = "200" /\ req[q].caller = "root"
    /\ req[r].kind = "delete" /\ resp[r] = "403" /\ req[r].caller = "amy"
    /\ req[r].target = cur[q].id
    /\ cur[q].id \in DOMAIN records /\ records[cur[q].id] = cur[q]
    /\ index.posts = <<cur[q].id>> /\ index.nextId = cur[q].id + 1

\* the accessible channel names of the caller of a read, on the channel
\* configuration the request carries
AccessibleTo(r) == getAccessibleChannelNames(req[r].caller, req[r].boardConfig)

\* C16: the posts a read is answered with are all in channels the caller may
\* access, with or without a channel filter, and are all in the requested
\* channel when there is one; a read naming a channel the caller may not access
\* is answered 403 with no posts
ReadShowsAccessibleOnly ==
  \A r \in Req :
    (req[r].kind = "read" /\ pc[r] = "done") =>
      /\ \A k \in 1..Len(listed[r]) :
           /\ ChannelOf(listed[r][k]) \in AccessibleTo(r)
           /\ req[r].channel # NoChannel => ChannelOf(listed[r][k]) = req[r].channel
      /\ (req[r].channel # NoChannel /\ req[r].channel \notin AccessibleTo(r)) =>
           (resp[r] = "403" /\ listed[r] = << >>)

\* C16 witness: a read without a channel filter was answered while a post in a
\* channel outside the caller's accessible names is stored, and the answer
\* leaves that post out
RestrictedPostWithheld ==
  \E r \in Req :
    /\ req[r].kind = "read" /\ resp[r] = "200" /\ req[r].channel = NoChannel
    /\ req[r].boardConfig = channels
    /\ \E id \in DOMAIN records :
         /\ id \in {index.posts[k] : k \in 1..Len(index.posts)}
         /\ records[id].channel \in DOMAIN channels
         /\ records[id].channel \notin AccessibleTo(r)
         /\ \A k \in 1..Len(listed[r]) : listed[r][k].id # id

\* the accessible names as the claim describes them; a caller without identity
\* has no level and is on no list
ClaimedNames(caller, config) ==
  LET level == IF caller = NoClient THEN 0 ELSE checkAgentAccess(caller)
  IN IF level >= 3
     THEN {general} \cup DOMAIN config
     ELSE {general}
            \cup {name \in DOMAIN config : config[name] = NoList /\ level >= 1}
            \cup {name \in DOMAIN config :
                    config[name] # NoList /\ caller # NoClient
                      /\ isInACL(config[name], caller)}

\* C17: the accessible names computed for the caller of a read are the default
\* channel, for an Admin every channel, and for anyone else the channels without
\* a list if the caller is at least a Reader and the channels whose list
\* includes the caller
AccessibleNamesAsClaimed ==
  \A r \in Req :
    req[r].kind = "read" => AccessibleTo(r) = ClaimedNames(req[r].caller, req[r].boardConfig)

\* C18: every stored post has no channel or names a channel of the tenant's
\* channel set
PostChannelsExist ==
  \A id \in DOMAIN records :
    records[id].channel = NoChannel \/ records[id].channel \in DOMAIN channels

\* C19: the image of a post submitted with vector graphics is, in the post that
\* is written, returned and broadcast, in its stored record and in its chain
\* link, what sanitizeSvg makes of the submitted image
SvgStoredSanitized ==
  \A r \in Req :
    (req[r].kind = "post" /\ req[r].image # NoImage /\ req[r].image.type = "svg") =>
      /\ cur[r] # NoPost => cur[r].image = sanitizeSvg(req[r].image)
      /\ (resp[r] = "200" /\ cur[r].id \in DOMAIN records) =>
           records[cur[r].id].image = sanitizeSvg(req[r].image)
      /\ task[r].link # NoLink => task[r].link.image = sanitizeSvg(req[r].image)

\* C20: while an index exists no handler starts the legacy migration, no write
\* of a migration changes the index or the records, and the post of an
\* accepted request stays in the index
MigrationNeverRerun ==
  [][index.exists =>
       /\ \A r \in Req :
            /\ pc'[r] = "migratePosts" => pc[r] = "migratePosts"
            /\ pc[r] \in {"migratePosts", "migrateIndex"} =>
                 (index' = index /\ records' = records)
       /\ \A q \in Req :
            (req[q].kind = "post" /\ resp[q] = "200"
               /\ \E k \in 1..Len(index.posts) : index.posts[k] = cur[q].id)
              => \E k \in 1..Len(index'.posts) : index'.posts[k] = cur[q].id]_vars

\* C21: the first access of the tenant after a start of the process materializes
\* the chain and the lastHash that were last persisted
ChainStateRoundTrip ==
  [][(~loaded /\ loaded') =>
       (postChain' = batchFile.chain /\ lastHash' = batchFile.lastHash)]_vars

\* a valid request of an identified caller handled while the oracle is
\* unreachable
WhileDown(request, kinds) ==
  /\ request.valid
  /\ request.oracle = "down"
  /\ request.caller # NoClient
  /\ request.kind \in kinds

\* C22: while the oracle is unreachable a submitPost and a submitComment are
\* answered 403 in the step that takes them up, which changes neither the
\* index nor the records nor what the listeners got, and they never write,
\* broadcast or schedule a link; a deletePost goes on only for the author of
\* the post, and for anyone else it is answered 403 or 404 without a write or
\* a broadcast
FailClosedWhileDown ==
  [][\A r \in Req :
       /\ WhileDown(req'[r], {"post", "comment"}) =>
            /\ resp'[r] = "403"
            /\ cur'[r] = NoPost
            /\ wrote'[r] = [rec |-> FALSE, idx |-> FALSE]
            /\ bcast'[r] = 0
            /\ task'[r] = NoTask
            /\ pc[r] = "idle" =>
                 (index' = index /\ records' = records /\ inbox' = inbox)
       /\ WhileDown(req'[r], {"delete"}) =>
            /\ cur'[r] # NoPost => isAuthor(cur'[r], req'[r].caller)
            /\ (pc'[r] = "done" /\ cur'[r] = NoPost) =>
                 /\ resp'[r] \in {"403", "404"}
                 /\ wrote'[r] = [rec |-> FALSE, idx |-> FALSE]
                 /\ bcast'[r] = 0
            /\ (pc[r] = "readPosts" /\ cur'[r] = NoPost) =>
                 (index' = index /\ records' = records /\ inbox' = inbox)]_vars

\* C22 witness: while the oracle was unreachable an Admin who is not the author
\* asked to delete a stored post and was answered 403, and the post is still
\* stored and listed
AdminRefusedWhileDown ==
  \E r \in Req :
    /\ WhileDown(req[r], {"delete"})
    /\ req[r].caller = "root"
    /\ resp[r] = "403"
    /\ 1 \in DOMAIN records /\ records[1].author # "root"
    /\ index.posts = <<1>>

\* C23: a read without a channel filter handled while the oracle is
\* unreachable is answered 200, with posts of the default channel and of
\* channels without a list only
ReadsSucceedWhileDown ==
  \A r \in Req :
    (req[r].kind = "read" /\ req[r].oracle = "down" /\ pc[r] = "done") =>
      /\ resp[r] = "200"
      /\ \A k \in 1..Len(listed[r]) :
           \/ ChannelOf(listed[r][k]) = general
           \/ /\ ChannelOf(listed[r][k]) \in DOMAIN req[r].boardConfig
              /\ req[r].boardConfig[ChannelOf(listed[r][k])] = NoList

\* C24: a step of a request or of a background task of the first tenant leaves
\* the second tenant's posts, chain, lastHash and summaries as they are and
\* sends nothing to the listeners connected for the second tenant
TenantIsolation ==
  [][<<index, records, batchFile, loaded, postChain, lastHash, summaries, req, pc, task>>'
        # <<index, records, batchFile, loaded, postChain, lastHash, summaries, req, pc, task>>
       => (other' = other /\ inbox'[DomainB] = inbox[DomainB])]_vars

\* C24 witness: the second tenant has a post, a link in its chain and one event
\* sent to its listeners, while the first tenant had a post accepted, linked
\* and flushed and a comment, an edit or a delete accepted
BothTenantsActive ==
  /\ other.posts = 1 /\ Len(other.postChain) = 1 /\ inbox[DomainB] = 1
  /\ \E r, q \in Req :
       /\ req[r].kind = "post" /\ resp[r] = "200" /\ task[r].pc = "done"
       /\ req[q].kind \in {"comment", "edit", "delete"} /\ resp[q] = "200"
  /\ summaries # << >>
  /\ inbox[DomainA] = 2

\* C25: when cleanup returns, no tenant has a link in its working chain
CleanupLeavesNoChain ==
  [][(shutdown.pc # "done" /\ shutdown'.pc = "done")
       => (postChain' = << >> /\ other'.postChain = << >>)]_vars

\* C26: a create post, create comment, edit or delete request whose input is
\* valid and that carries no caller identity is answered 401 and neither
\* writes nor broadcasts
MissingIdentityIs401 ==
  \A r \in Req :
    (req[r].valid /\ req[r].caller = NoClient /\ pc[r] = "done"
       /\ req[r].kind \in {"post", "comment", "edit", "delete"}) =>
      /\ resp[r] = "401"
      /\ wrote[r] = [rec |-> FALSE, idx |-> FALSE]
      /\ bcast[r] = 0

\* C27: the comments of a stored post have pairwise distinct ids
CommentIdsDistinct ==
  \A id \in DOMAIN records :
    \A i, j \in 1..Len(records[id].comments) :
      i # j => records[id].comments[i].id # records[id].comments[j].id

\* a deletePost for the post with this id has passed its permission check
DeleteAccepted(id) ==
  \E q \in Req : req[q].kind = "delete" /\ req[q].target = id /\ cur[q] # NoPost

\* C29: the post of an accepted submitPost is listed in the index and has a
\* record, unless a deletePost for it was accepted
AcceptedPostsStayListed ==
  \A r \in Req :
    (req[r].kind = "post" /\ resp[r] = "200" /\ ~DeleteAccepted(cur[r].id)) =>
      /\ \E k \in 1..Len(index.posts) : index.posts[k] = cur[r].id
      /\ cur[r].id \in DOMAIN records

\* C30: the comment of an accepted submitComment is in the stored record of its
\* post, unless a deletePost for the post was accepted
AcceptedCommentsStayStored ==
  \A r \in Req :
    (req[r].kind = "comment" /\ resp[r] = "200" /\ ~DeleteAccepted(req[r].target)) =>
      /\ req[r].target \in DOMAIN records
      /\ \E k \in 1..Len(records[req[r].target].comments) :
           records[req[r].target].comments[k].text = r

\* the link is among the entries of the summary
InSummary(link, summary) ==
  \E j \in 1..Len(summary.posts) : summary.posts[j].hash = link.hash

PostsEventuallyLinked ==
  \A r \in Req :
    (req[r].kind = "post" /\ resp[r] = "200") ~> (task[r].pc \in {"flushing", "done"})

\* C32: no link is among the entries of two uploaded summaries
LinkInOneSummary ==
  \A k1, k2 \in 1..Len(summaries) :
    (k1 # k2 /\ summaries[k1].uploaded /\ summaries[k2].uploaded) =>
      \A j \in 1..Len(summaries[k1].summary.posts) :
        ~InSummary(summaries[k1].summary.posts[j], summaries[k2].summary)

\* C33: a step of the handler of a submitComment, an editPost or a deletePost
\* leaves the working chain, lastHash, the persisted chain state and the
\* summaries as they are, such a request never schedules a link, and every
\* step that changes one of them is a step of the background task of a
\* submitPost
OnlyCreationsChain ==
  [][/\ \A r \in Req :
          req'[r].kind \in {"comment", "edit", "delete"} =>
            /\ task'[r] = NoTask
            /\ pc'[r] # pc[r] =>
                 UNCHANGED <<postChain, lastHash, batchFile, loaded, summaries>>
     /\ <<postChain, lastHash, batchFile, loaded, summaries>>'
          # <<postChain, lastHash, batchFile, loaded, summaries>> =>
            \E r \in Req : req[r].kind = "post" /\ task'[r] # task[r]]_vars

\* C33 witness: a deletePost was accepted for a post whose link is in the
\* working chain, and the link is still there
DeletedPostStillLinked ==
  \E r, q \in Req :
    /\ req[r].kind = "post" /\ resp[r] = "200"
    /\ req[q].kind = "delete" /\ resp[q] = "200" /\ req[q].target = cur[r].id
    /\ cur[r].id \notin DOMAIN records
    /\ \E i \in 1..Len(postChain) : postChain[i].id = cur[r].id

\* C34: when a handler broadcasts a new post, a new comment or an edited post,
\* every listener the event is sent to is connected for the tenant of the
\* request and its caller has the channel of the post among the accessible
\* names
EventsByChannelAccess ==
  [][\A r \in Req :
       (bcast'[r] > bcast[r] /\ req[r].kind \in {"post", "comment", "edit"}) =>
         \A l \in Listeners :
           inbox'[l.domain] > inbox[l.domain] =>
             /\ l.domain = DomainA
             /\ ChannelOf(cur[r]) \in getAccessibleChannelNames(l.caller, channels)]_vars

\* C35: a submitPost naming a channel other than the default one is accepted
\* only if the channel is among the accessible names of its caller
PostOnlyIntoAccessible ==
  [][\A r \in Req :
       (resp[r] # "200" /\ resp'[r] = "200" /\ req[r].kind = "post"
          /\ req[r].channel \notin {NoChannel, general}) =>
         req[r].channel \in getAccessibleChannelNames(req[r].caller, channels)]_vars

\* C36: the accessible names computed for an identified caller include the
\* accessible names computed for a caller without identity
IdentityKeepsVisibility ==
  \A r \in Req :
    (req[r].kind = "read" /\ req[r].caller # NoClient) =>
      getAccessibleChannelNames(NoClient, req[r].boardConfig) \subseteq AccessibleTo(r)

\* C37: every background append that awaits the upload of its link goes on to
\* append the link and save the chain state, whether or not the content store
\* ever answers
AppendsReturnToIdle ==
  \A r \in Req : (task[r].pc = "anchoring") ~> (task[r].pc \in {"flushing", "done"})

\* C38: no two entries of the page's post list have the same id
ClientPostsDistinct ==
  \A i, j \in 1..Len(client.posts) :
    client.posts[i] = client.posts[j] => i = j

====
